---------------------------- MODULE Spec2Model ----------------------------
(***************************************************************************)
(* Model of the job scheduling core of nextbox-daemon                      *)
(* (src/nextbox_daemon/jobs.py): BaseJob, the concrete jobs, JobManager,   *)
(* and the hardware button callback bound by FactoryResetJob.__init__.     *)
(*                                                                         *)
(* Time is counted in clock ticks, TicksPerSecond ticks to the second, so  *)
(* that the truncation done by timedelta.seconds is visible.               *)
(***************************************************************************)
EXTENDS Integers, Sequences, FiniteSets, TLC

(* ------------------------------ bounds --------------------------------- *)
\* number of clock advances explored
MaxTicks == 1
\* number of register_job calls explored when several jobs share the manager
MaxRegistrations == 3
\* number of register_job calls explored when a job has the manager to itself
MaxAlone == 1
\* length of the progress sequence produced by full_export / full_import
SeqLen == 2
\* number of diagnostic messages kept on board.messages
MaxMessages == 1
\* clock resolution: ticks per second
TicksPerSecond == 2

(* --------------------------- program constants ------------------------- *)
\* timedelta.seconds is the seconds component of a timedelta: 0 .. 86399
SecondsPerDay == 86400
LED_initial_interval == 1
EnableNextBoxApp_initial_interval == 5
EnableNextBoxApp_enabled_interval == 3600
SelfUpdate_initial_interval == 1
GenericStatusUpdate_initial_interval == 15
HardwareStatusUpdate_initial_interval == 7200
TrustedDomains_initial_interval == 90
TrustedDomains_ok_interval == 900
TrustedDomains_retry_interval == 15
BackupRestore_active_interval == 1

(* ------------------------------ values --------------------------------- *)
\* Python's None and a present value: an optional is a sequence of length <= 1
None == << >>
Some(x) == << x >>
\* Python values of different types never compare equal: "0" is not 0
PyStr(s) == << "str", s >>
PyInt(n) == << "int", n >>

JobNames ==
    { "LED", "FactoryReset", "BackupRestore", "EnableNextBoxApp", "SelfUpdate",
      "GenericStatusUpdate", "HardwareStatusUpdate", "TrustedDomains" }

\* a name no job class carries
UnknownName == "NoSuchJob"

\* the clock advances explored: between one and two seconds, six seconds, a day
Deltas ==
    { TicksPerSecond + (TicksPerSecond \div 2), (EnableNextBoxApp_initial_interval + 1) * TicksPerSecond,
      SecondsPerDay * TicksPerSecond }

\* the job classes explored together in one manager
SchedulerJobs == { "LED", "EnableNextBoxApp", "FactoryReset" }

VARIABLES
    now,        \* dt.now(), in ticks
    jobs,       \* JobManager.jobs: insertion-ordered dict, as a sequence of job instances
    board,      \* board topics: topic -> record
    messages,   \* board.messages queue
    driver,     \* position of the driver thread: idle, or inside a job's run()
    button,     \* position of the hardware callback thread: idle, or inside when_held
    when_held,  \* shield.button.when_held: None or the bound instance
    ev,         \* the last operation performed and what it did (observation)
    hist        \* history: counters that bound the exploration, per job name the
                \* registration numbers and the clock reading of its last timestamp reset,
                \* and whether the last start of BackupRestore found a record on its topic

vars == << now, jobs, board, messages, driver, button, when_held, ev, hist >>
(* --------------------------- the ordered dict -------------------------- *)
\* k in d
dict_contains(d, k) == \E i \in 1..Len(d) : d[i].name = k

\* position of key k (the first entry carrying it)
dict_index(d, k) == CHOOSE i \in 1..Len(d) : d[i].name = k /\ \A j \in 1..(i - 1) : d[j].name # k

\* d[k]
dict_get(d, k) == d[dict_index(d, k)]

\* a dict whose assignment to an existing key moves the key to the end
dict_set_move_to_end(d, k, v) == Append(SelectSeq(d, LAMBDA e : e.name # k), v)

\* a registry that keeps every instance ever registered
dict_set_append(d, k, v) == Append(d, v)

\* d[k] = v: an existing key keeps its position, a new key goes last
dict_set(d, k, v) == IF dict_contains(d, k) THEN [d EXCEPT ![dict_index(d, k)] = v] ELSE Append(d, v)

\* the position of the instance with identity id (object identity, not key)
index_of_id(d, id) == CHOOSE i \in 1..Len(d) : d[i].id = id

\* a merge in which a field the record already has keeps its value
board_update_keep_old(b, topic, rec) ==
    LET old == IF b[topic] = None THEN << >> ELSE b[topic][1]
        new == [k \in DOMAIN old \cup DOMAIN rec |-> IF k \in DOMAIN old THEN old[k] ELSE rec[k]]
    IN  [b EXCEPT ![topic] = Some(new)]

\* the board's update(topic, partial): merge into the existing record, create if absent
board_update(b, topic, rec) ==
    LET keys == (IF b[topic] = None THEN {} ELSE DOMAIN b[topic][1]) \cup DOMAIN rec
        new == [k \in keys |-> IF k \in DOMAIN rec THEN rec[k] ELSE b[topic][1][k]]
    IN  [b EXCEPT ![topic] = Some(new)]

\* the board's set(topic, record): replace wholesale
board_set(b, topic, rec) == [b EXCEPT ![topic] = Some(rec)]

\* board.messages.put(msg)
messages_put(q, msg) == Append(q, msg)

(* ------------------------------- BaseJob ------------------------------- *)
\* timedelta.seconds of an elapsed time of d ticks (d >= 0): whole seconds, days dropped
timedelta_seconds(d) == (d \div TicksPerSecond) % SecondsPerDay

\* an is_due that measures the clock reading instead of the time since last_run
is_due_since_epoch(job, t) == IF job.interval = None THEN FALSE ELSE timedelta_seconds(t) > job.interval[1]

\* BaseJob.is_due at clock reading t
is_due(job, t) == IF job.interval = None THEN FALSE ELSE timedelta_seconds(t - job.last_run) > job.interval[1]

\* the initial_interval each class passes to BaseJob.__init__
initial_interval(name) ==
    CASE name = "LED" -> Some(LED_initial_interval)
      [] name = "FactoryReset" -> None
      [] name = "BackupRestore" -> None
      [] name = "EnableNextBoxApp" -> Some(EnableNextBoxApp_initial_interval)
      [] name = "SelfUpdate" -> Some(SelfUpdate_initial_interval)
      [] name = "GenericStatusUpdate" -> Some(GenericStatusUpdate_initial_interval)
      [] name = "HardwareStatusUpdate" -> Some(HardwareStatusUpdate_initial_interval)
      [] name = "TrustedDomains" -> Some(TrustedDomains_initial_interval)

\* job(): the instance a job class constructs at clock reading t; id is its identity
BaseJob_init(name, id, t) ==
    [name |-> name, id |-> id, interval |-> initial_interval(name), last_run |-> t, iterator |-> None]

\* a run() that enters the body without touching last_run
run_enter_late(job, t) == job

\* a run() that re-arms the initial interval before it enters the body
run_enter_rearm(job, t) == [job EXCEPT !.last_run = t, !.interval = initial_interval(job.name)]

\* the first three lines of BaseJob.run: last_run is set before the body is entered
run_enter(job, t) == [job EXCEPT !.last_run = t]

(* ----------------------------- job bodies ------------------------------ *)
\* job_kwargs: a mapping of the keys tar_path and mode, each absent (None) or present
\* (kwargs.get(key) is kwargs[key])
kwargs_contains(kwargs, key) == kwargs[key] # None

\* what one execution of a body leaves behind: the job, the board, the message
\* queue, whether an exception left the body, and the services it started
Res(job, b, q, raised, started) ==
    [job |-> job, board |-> b, messages |-> q, raised |-> raised, started |-> started]

\* LEDJob._run
LEDJob_run(job, b, q, kwargs, out) == Res([job EXCEPT !.interval = None], b, q, FALSE, << >>)

\* FactoryResetJob._run; out: "ok", or "start_raises" when Services.start fails
FactoryResetJob_run(job, b, q, kwargs, out) ==
    Res(job, b, q, out = "start_raises", << "nextbox-factory-reset" >>)

\* the i-th record (1..SeqLen) of the progress sequence of full_export / full_import
ProgressRecord(kind, i) ==
    [state |-> IF i = SeqLen THEN "done" ELSE "running", who |-> "nextcloud", what |-> kind,
     percent |-> PyInt((100 * i) \div SeqLen)]

\* ctrl.full_export(path) / ctrl.full_import(path): a fresh sequence, nothing pulled yet
full_export(path) == [kind |-> "export", path |-> path, pos |-> 0]
full_import(path) == [kind |-> "import", path |-> path, pos |-> 0]

\* the record board.update publishes when an operation starts
StartingRecord(kwargs) ==
    [state |-> "starting", percent |-> PyStr("0"), who |-> "all", tar_path |-> kwargs["tar_path"][1],
     what |-> IF kwargs["mode"][1] = "backup" THEN "export" ELSE "import", mode |-> kwargs["mode"][1]]

\* the first guard of BackupRestoreJob._run: a start argument is missing
BackupRestore_missing_args(job, kwargs) ==
    job.iterator = None /\ (~kwargs_contains(kwargs, "tar_path") \/ ~kwargs_contains(kwargs, "mode"))

\* a second guard that accepts any mode
BackupRestore_mode_unchecked(job, kwargs) == FALSE

\* the second guard of BackupRestoreJob._run: mode is neither backup nor restore
BackupRestore_bad_mode(job, kwargs) ==
    job.iterator = None /\ kwargs["mode"] \notin { Some("backup"), Some("restore") }

\* a start branch that forgets to arm the recurrence
BackupRestore_start_unarmed(job, b, q, kwargs, out) ==
    IF out = "update_raises" THEN Res(job, b, q, TRUE, << >>)
    ELSE IF out = "create_raises"
    THEN Res(job, board_update(b, "backup_restore", StartingRecord(kwargs)), q, TRUE, << >>)
    ELSE Res([job EXCEPT !.iterator = Some(IF kwargs["mode"][1] = "backup" THEN full_export(kwargs["tar_path"][1])
                                              ELSE full_import(kwargs["tar_path"][1]))],
             board_update(b, "backup_restore", StartingRecord(kwargs)), q, FALSE, << >>)

\* BackupRestoreJob._run, the start branch; out: "ok", "update_raises" (board.update
\* fails), "create_raises" (full_export / full_import fails)
BackupRestore_start(job, b, q, kwargs, out) ==
    IF out = "update_raises" THEN Res(job, b, q, TRUE, << >>)
    ELSE LET b1 == board_update(b, "backup_restore", StartingRecord(kwargs))
             it == IF kwargs["mode"][1] = "backup" THEN full_export(kwargs["tar_path"][1])
                   ELSE full_import(kwargs["tar_path"][1])
         IN  IF out = "create_raises" THEN Res(job, b1, q, TRUE, << >>)
             ELSE Res([job EXCEPT !.iterator = Some(it), !.interval = Some(BackupRestore_active_interval)],
                      b1, q, FALSE, << >>)

\* a progress branch that drains the sequence in one execution and publishes its last record
BackupRestore_pull_eager(job, b, q, kwargs, out) ==
    LET it == job.iterator[1]
    IN  IF out \in { "next_raises", "next_raises_closed", "set_raises" } THEN Res(job, b, q, TRUE, << >>)
        ELSE IF it.pos >= SeqLen
        THEN Res([job EXCEPT !.iterator = None, !.interval = None], b, q, FALSE, << >>)
        ELSE LET rec == ProgressRecord(it.kind, SeqLen)
             IN  Res([job EXCEPT !.iterator = Some([it EXCEPT !.pos = SeqLen])],
                     board_set(b, "backup_restore",
                               [state |-> rec.state, who |-> rec.who, what |-> rec.what, percent |-> rec.percent]),
                     q, FALSE, << >>)

\* a progress branch that drops the sequence handle when next() fails
BackupRestore_pull_drop_on_error(job, b, q, kwargs, out) ==
    LET it == job.iterator[1]
    IN  IF out \in { "next_raises", "next_raises_closed" }
        THEN Res([job EXCEPT !.iterator = None], b, q, TRUE, << >>)
        ELSE IF it.pos >= SeqLen
        THEN Res([job EXCEPT !.iterator = None, !.interval = None], b, q, FALSE, << >>)
        ELSE LET j1 == [job EXCEPT !.iterator = Some([it EXCEPT !.pos = it.pos + 1])]
             IN  IF out = "set_raises" THEN Res(j1, b, q, TRUE, << >>)
                 ELSE Res(j1, board_set(b, "backup_restore", ProgressRecord(it.kind, it.pos + 1)), q, FALSE, << >>)

\* BackupRestoreJob._run, the progress branch; out: "ok", "next_raises" (next() fails
\* and the sequence keeps its position), "next_raises_closed" (next() fails and the
\* sequence is finished, as a generator is), "set_raises" (board.set fails)
BackupRestore_pull(job, b, q, kwargs, out) ==
    LET it == job.iterator[1]
    IN  IF out = "next_raises" THEN Res(job, b, q, TRUE, << >>)
        ELSE IF out = "next_raises_closed"
        THEN Res([job EXCEPT !.iterator = Some([it EXCEPT !.pos = SeqLen])], b, q, TRUE, << >>)
        ELSE IF it.pos >= SeqLen
        THEN Res([job EXCEPT !.iterator = None, !.interval = None], b, q, FALSE, << >>)
        ELSE LET rec == ProgressRecord(it.kind, it.pos + 1)
                 j1 == [job EXCEPT !.iterator = Some([it EXCEPT !.pos = it.pos + 1])]
             IN  IF out = "set_raises" THEN Res(j1, b, q, TRUE, << >>)
                 ELSE Res(j1, board_set(b, "backup_restore",
                              [state |-> rec.state, who |-> rec.who, what |-> rec.what,
                               percent |-> rec.percent]), q, FALSE, << >>)

\* a _run that inspects the start arguments before the sequence handle: usable start
\* arguments start a new operation even while one is active
BackupRestoreJob_run_args_first(job, b, q, kwargs, out) ==
    IF kwargs["tar_path"] # None /\ kwargs["mode"] \in { Some("backup"), Some("restore") }
    THEN BackupRestore_start(job, b, q, kwargs, IF out \in { "update_raises", "create_raises" } THEN out ELSE "ok")
    ELSE IF job.iterator = None
    THEN Res(job, b, messages_put(q, "Requested starting BackupRestore-Job without 'tar_path' and/or 'mode' arg"),
             FALSE, << >>)
    ELSE BackupRestore_pull(job, b, q, kwargs, out)

\* BackupRestoreJob._run
BackupRestoreJob_run(job, b, q, kwargs, out) ==
    IF BackupRestore_missing_args(job, kwargs)
    THEN Res(job, b, messages_put(q, "Requested starting BackupRestore-Job without 'tar_path' and/or 'mode' arg"),
             FALSE, << >>)
    ELSE IF BackupRestore_bad_mode(job, kwargs)
    THEN Res(job, b, messages_put(q, "'mode' arg needs to be either 'backup' or 'restore'"), FALSE, << >>)
    ELSE IF job.iterator = None THEN BackupRestore_start(job, b, q, kwargs, out)
    ELSE BackupRestore_pull(job, b, q, kwargs, out)

\* EnableNextBoxAppJob._run; out: "not_installed", "already" (enable_nextbox_app
\* returns true), "enabled" (it returns false), "NextcloudError", "raises" (any
\* other exception of the occ command runner)
EnableNextBoxAppJob_run(job, b, q, kwargs, out) ==
    IF out = "already" THEN Res([job EXCEPT !.interval = Some(EnableNextBoxApp_enabled_interval)], b, q, FALSE, << >>)
    ELSE Res(job, b, q, out = "raises", << >>)

\* a _run that disables its recurrence last, after the package work
SelfUpdateJob_run_disable_last(job, b, q, kwargs, out) ==
    IF out \in { "update_raises", "start_raises" }
    THEN Res(job, b, q, TRUE, IF out = "start_raises" THEN << "nextbox-updater" >> ELSE << >>)
    ELSE Res([job EXCEPT !.interval = None], b, q, FALSE,
             IF out \in { "not_installed", "upgradable" } THEN << "nextbox-updater" >> ELSE << >>)

\* SelfUpdateJob._run; out: "update_raises" (the package cache fails), "not_found",
\* "not_installed", "upgradable", "current", "start_raises" (Services.start fails)
SelfUpdateJob_run(job, b, q, kwargs, out) ==
    LET j1 == [job EXCEPT !.interval = None]
    IN  IF out = "update_raises" THEN Res(j1, b, q, TRUE, << >>)
        ELSE IF out = "not_found" THEN Res(j1, b, q, FALSE, << >>)
        ELSE IF out \in { "not_installed", "upgradable", "start_raises" }
        THEN Res(j1, b, q, out = "start_raises", << "nextbox-updater" >>)
        ELSE Res(j1, b, q, FALSE, << >>)

\* GenericStatusUpdateJob._run; out: "ok", "no_pkginfo" (the package lookup fails and
\* is caught), "cfg_raises" (cfg lacks the debian_package key)
GenericStatusUpdateJob_run(job, b, q, kwargs, out) ==
    LET j1 == [job EXCEPT !.interval = None]
    IN  IF out = "cfg_raises" THEN Res(j1, b, q, TRUE, << >>)
        ELSE IF out = "no_pkginfo" THEN Res(j1, b, q, FALSE, << >>)
        ELSE Res(j1, board_set(b, "pkginfo", [version |-> "1.0", pkg |-> "nextbox"]), q, FALSE, << >>)

\* HardwareStatusUpdateJob._run; out: "ok", "read_raises" (the sensor file is unreadable)
HardwareStatusUpdateJob_run(job, b, q, kwargs, out) ==
    IF out = "read_raises" THEN Res(job, b, q, TRUE, << >>)
    ELSE Res(job, board_set(b, "hwinfo", [temp |-> "42000"]), q, FALSE, << >>)

\* TrustedDomainsJob._run; out: "not_installed", "get_error" (get_config fails),
\* "empty" (trusted_domains has no entry 0), "complete" (nothing to write),
\* "set_ok", "set_error" (set_config fails)
TrustedDomainsJob_run(job, b, q, kwargs, out) ==
    IF out \in { "not_installed", "get_error", "set_error" }
    THEN Res([job EXCEPT !.interval = Some(TrustedDomains_retry_interval)], b, q, FALSE, << >>)
    ELSE Res([job EXCEPT !.interval = Some(TrustedDomains_ok_interval)], b, q, out = "empty", << >>)

\* job._run(cfg, board, kwargs), by the class of the instance
body(job, b, q, kwargs, out) ==
    CASE job.name = "LED" -> LEDJob_run(job, b, q, kwargs, out)
      [] job.name = "FactoryReset" -> FactoryResetJob_run(job, b, q, kwargs, out)
      [] job.name = "BackupRestore" -> BackupRestoreJob_run(job, b, q, kwargs, out)
      [] job.name = "EnableNextBoxApp" -> EnableNextBoxAppJob_run(job, b, q, kwargs, out)
      [] job.name = "SelfUpdate" -> SelfUpdateJob_run(job, b, q, kwargs, out)
      [] job.name = "GenericStatusUpdate" -> GenericStatusUpdateJob_run(job, b, q, kwargs, out)
      [] job.name = "HardwareStatusUpdate" -> HardwareStatusUpdateJob_run(job, b, q, kwargs, out)
      [] job.name = "TrustedDomains" -> TrustedDomainsJob_run(job, b, q, kwargs, out)

\* what the collaborators a body calls can do during one execution of it
Outcomes(job, kwargs) ==
    CASE job.name = "LED" -> { "ok" }
      [] job.name = "FactoryReset" -> { "ok", "start_raises" }
      [] job.name = "BackupRestore" ->
            IF BackupRestore_missing_args(job, kwargs) THEN { "ok" }
            ELSE IF BackupRestore_bad_mode(job, kwargs) THEN { "ok" }
            ELSE IF job.iterator = None THEN { "ok", "update_raises", "create_raises" }
            ELSE IF job.iterator[1].pos >= SeqLen THEN { "ok", "next_raises" }
            ELSE { "ok", "next_raises", "next_raises_closed", "set_raises" }
      [] job.name = "EnableNextBoxApp" -> { "not_installed", "already", "enabled", "NextcloudError", "raises" }
      [] job.name = "SelfUpdate" ->
            { "update_raises", "not_found", "not_installed", "upgradable", "current", "start_raises" }
      [] job.name = "GenericStatusUpdate" -> { "ok", "no_pkginfo", "cfg_raises" }
      [] job.name = "HardwareStatusUpdate" -> { "ok", "read_raises" }
      [] job.name = "TrustedDomains" ->
            { "not_installed", "get_error", "empty", "complete", "set_ok", "set_error" }

(* ------------------------------ JobManager ----------------------------- *)
\* the topics the jobs publish to; a topic never written holds None
Topics == { "backup_restore", "pkginfo", "hwinfo" }

NoArgs == [tar_path |-> None, mode |-> None]
TarPath == "/tmp/x.tar"

\* the job_kwargs explored: none, a path alone, a mode alone, and a path with each mode
Kwargs ==
    { NoArgs, [tar_path |-> Some(TarPath), mode |-> None], [tar_path |-> None, mode |-> Some("backup")] }
    \cup { [tar_path |-> Some(TarPath), mode |-> Some(m)] : m \in { "backup", "restore", "delete" } }

\* only BackupRestoreJob._run reads its kwargs
KwargsFor(name) == IF name = "BackupRestore" THEN Kwargs ELSE { NoArgs }

Idle == [pc |-> "idle", name |-> "", inst |-> 0, kwargs |-> NoArgs, entered_at |-> 0]

\* the observation an operation leaves in ev: the operation, the job name it was
\* given, how it ended, the clock reading when it ended, whether an exception left
\* it, the services it started, how long the body took, for get_recurring_job
\* the value returned, and for a handle_job that ran a body the job_kwargs it passed
Ev(op, name, outcome, t) ==
    [op |-> op, name |-> name, outcome |-> outcome, at |-> t, escaped |-> FALSE,
     started |-> << >>, took |-> 0, ret |-> None, kwargs |-> NoArgs]

\* JobManager.register_job: self.jobs[job.name] = job()
register_job(d, name, id, t) == dict_set(d, name, BaseJob_init(name, id, t))

\* JobManager.get_recurring_job: the name of the first due job in dict order, or None
get_recurring_job(d, t) ==
    LET due == { i \in 1..Len(d) : is_due(d[i], t) }
    IN  IF due = {} THEN None ELSE Some(d[CHOOSE i \in due : \A j \in due : i <= j].name)

\* a lookup without the membership test: self.jobs[job_name] raises outside the try
handle_job_lookup_unguarded(d, name) == [found |-> dict_contains(d, name), escaped |-> ~dict_contains(d, name)]

\* JobManager.handle_job, the lookup: an unregistered name is logged and ignored
handle_job_lookup(d, name) == [found |-> dict_contains(d, name), escaped |-> FALSE]

\* a handle_job without the try/except around run()
handle_job_reraise(raised) == [escaped |-> raised]

\* JobManager.handle_job, the except clause: an exception of run() is logged and swallowed
handle_job_except(raised) == [escaped |-> FALSE]

(* ------------------------------- actions ------------------------------- *)
Init ==
    /\ now = 0
    /\ jobs = << >>
    /\ board = [t \in Topics |-> None]
    /\ messages = << >>
    /\ driver = Idle
    /\ button = "idle"
    /\ when_held = None
    /\ ev = Ev("init", "", "", 0)
    /\ hist = [nticks |-> 0, nreg |-> 0, scheduling |-> FALSE, merged |-> FALSE,
               first |-> [n \in JobNames |-> 0], latest |-> [n \in JobNames |-> 0],
               reset |-> [n \in JobNames |-> 0], failed |-> [n \in JobNames |-> FALSE]]

\* the clock advances
Tick ==
    /\ hist.nticks < MaxTicks
    /\ hist.scheduling
    /\ \E d \in Deltas : now' = now + d
    /\ hist' = [hist EXCEPT !.nticks = @ + 1]
    /\ UNCHANGED << jobs, board, messages, driver, button, when_held, ev >>

\* the driver calls register_job(cls) for a class of the set classes, before
\* scheduling begins; FactoryResetJob.__init__ binds button.when_held
RegisterJobOf(classes, max) ==
    /\ driver.pc = "idle"
    /\ ~hist.scheduling
    /\ hist.nreg < max
    /\ \E name \in classes :
          LET id == hist.nreg + 1
          IN  /\ jobs' = register_job(jobs, name, id, now)
              /\ when_held' = IF name = "FactoryReset" THEN Some(id) ELSE when_held
              /\ ev' = Ev("register_job", name, IF dict_contains(jobs, name) THEN "overwritten" ELSE "ok", now)
              /\ hist' = [hist EXCEPT !.nreg = id,
                                      !.first[name] = IF @ = 0 THEN id ELSE @,
                                      !.latest[name] = id,
                                      !.reset[name] = now,
                                      !.failed[name] = FALSE]
    /\ UNCHANGED << now, board, messages, driver, button >>

\* register_job in a manager that several job classes share
RegisterJob == RegisterJobOf(SchedulerJobs, MaxRegistrations)

\* register_job in a manager that holds one job class
RegisterAlone == RegisterJobOf(JobNames, MaxAlone)

\* a get_recurring_job that resets the timestamp of the job it returns
GetRecurringJob_touching ==
    /\ driver.pc = "idle"
    /\ LET r == get_recurring_job(jobs, now)
       IN  /\ ev' = [Ev("get_recurring_job", "", IF ev.op = "get_recurring_job" THEN "repeat" ELSE "ok", now) EXCEPT
                       !.ret = r]
           /\ jobs' = IF r = None THEN jobs ELSE [jobs EXCEPT ![dict_index(jobs, r[1])].last_run = now]
    /\ hist' = [hist EXCEPT !.scheduling = TRUE]
    /\ UNCHANGED << now, board, messages, driver, button, when_held >>

\* the driver calls get_recurring_job(); outcome "repeat": the driver's previous
\* call was get_recurring_job too
GetRecurringJob ==
    /\ driver.pc = "idle"
    /\ ev' = [Ev("get_recurring_job", "", IF ev.op = "get_recurring_job" THEN "repeat" ELSE "ok", now) EXCEPT
                !.ret = get_recurring_job(jobs, now)]
    /\ hist' = [hist EXCEPT !.scheduling = TRUE]
    /\ UNCHANGED << now, jobs, board, messages, driver, button, when_held >>

\* the driver calls handle_job(name, kwargs): the lookup, and the first lines of
\* run() up to the entry into the body
HandleJobCall ==
    /\ driver.pc = "idle"
    /\ \E name \in { jobs[i].name : i \in 1..Len(jobs) } \cup { UnknownName } : \E kwargs \in KwargsFor(name) :
          LET look == handle_job_lookup(jobs, name)
          IN  IF ~look.found
              THEN /\ ev' = [Ev("handle_job", name, "unknown", now) EXCEPT !.escaped = look.escaped]
                   /\ hist' = [hist EXCEPT !.scheduling = TRUE]
                   /\ UNCHANGED << jobs, driver >>
              ELSE LET i == dict_index(jobs, name)
                   IN  /\ (BackupRestore_missing_args(jobs[i], kwargs) \/ BackupRestore_bad_mode(jobs[i], kwargs))
                             => Len(messages) < MaxMessages
                       /\ jobs' = [jobs EXCEPT ![i] = run_enter(@, now)]
                       /\ driver' = [pc |-> "run", name |-> name, inst |-> jobs[i].id, kwargs |-> kwargs,
                                     entered_at |-> now]
                       /\ ev' = Ev("run", name, "", now)
                       /\ hist' = [hist EXCEPT !.scheduling = TRUE, !.reset[name] = now, !.failed[name] = FALSE]
    /\ UNCHANGED << now, board, messages, button, when_held >>

\* the body of the dispatched job executes and handle_job returns
HandleJobReturn ==
    /\ driver.pc = "run"
    /\ LET i == dict_index(jobs, driver.name)
       IN  \E out \in Outcomes(jobs[i], driver.kwargs) :
              LET r == body(jobs[i], board, messages, driver.kwargs, out)
              IN  /\ jobs' = [jobs EXCEPT ![i] = r.job]
                  /\ board' = r.board
                  /\ messages' = r.messages
                  /\ ev' = [Ev("handle_job", driver.name, IF r.raised THEN "raised" ELSE "ok", now) EXCEPT
                              !.escaped = r.raised /\ handle_job_except(r.raised).escaped,
                              !.started = r.started, !.took = now - driver.entered_at,
                              !.kwargs = driver.kwargs]
                  /\ hist' = [hist EXCEPT !.failed[driver.name] = r.raised,
                                          !.merged = IF jobs[i].iterator = None /\ r.job.iterator # None
                                                     THEN board["backup_restore"] # None ELSE @]
    /\ driver' = Idle
    /\ UNCHANGED << now, button, when_held >>

\* the button is held: the callback thread calls when_held, which is the bound
\* FactoryResetJob._run itself, with no arguments
ButtonHeld ==
    /\ when_held # None
    /\ button = "idle"
    /\ button' = "_run"
    /\ UNCHANGED << now, jobs, board, messages, driver, when_held, ev, hist >>

\* the body entered by the callback executes and returns, or raises, into the
\* callback thread: no run() has set last_run, and no handle_job stands between the
\* body and its caller; the driver observes nothing of it
ButtonReturn ==
    /\ button = "_run"
    /\ button' = "idle"
    /\ LET i == index_of_id(jobs, when_held[1])
       IN  \E out \in Outcomes(jobs[i], NoArgs) :
              LET r == FactoryResetJob_run(jobs[i], board, messages, NoArgs, out)
              IN  /\ jobs' = [jobs EXCEPT ![i] = r.job]
                  /\ board' = r.board
                  /\ messages' = r.messages
    /\ UNCHANGED << now, driver, when_held, ev, hist >>

\* a manager shared by the scheduler's simple jobs, with a clock
Next ==
    \/ Tick
    \/ RegisterJob
    \/ GetRecurringJob
    \/ HandleJobCall
    \/ HandleJobReturn
    \/ ButtonHeld
    \/ ButtonReturn

Spec == Init /\ [][Next]_vars

\* a manager that holds one job of any class
NextAlone ==
    \/ RegisterAlone
    \/ GetRecurringJob
    \/ HandleJobCall
    \/ HandleJobReturn
    \/ ButtonHeld
    \/ ButtonReturn

SpecAlone == Init /\ [][NextAlone]_vars

\* register_job(SelfUpdateJob)
RegisterSelfUpdate == RegisterJobOf({ "SelfUpdate" }, MaxAlone)

\* a manager that holds the self-update job, with a clock
NextSelfUpdate ==
    \/ Tick
    \/ RegisterSelfUpdate
    \/ GetRecurringJob
    \/ HandleJobCall
    \/ HandleJobReturn

SpecSelfUpdate == Init /\ [][NextSelfUpdate]_vars

(* --------------------------- the polling loop -------------------------- *)
\* the job classes registered with the manager the loop polls
LoopJobs == { "EnableNextBoxApp", "LED" }

\* the time that passes while a slow body executes, or while the driver waits
\* after get_recurring_job returned None: an hour
LoopStep == EnableNextBoxApp_enabled_interval * TicksPerSecond

\* a day of clock ticks
TicksPerDay == SecondsPerDay * TicksPerSecond

\* register_job for the jobs of the loop, before the loop starts
RegisterLoop == RegisterJobOf(LoopJobs, Cardinality(LoopJobs))

\* the clock advances by LoopStep while a body executes (a slow body), or once
\* after get_recurring_job returned None (the driver waits, then polls again).
\* The reading is kept modulo one day: is_due, the only reader of the clock, takes
\* timedelta.seconds of a difference of readings, which is the same for readings a
\* whole number of days apart.
TickLoop ==
    /\ \/ driver.pc = "run" /\ driver.entered_at = now
       \/ driver.pc = "idle" /\ ev.op = "get_recurring_job" /\ ev.ret = None /\ ev.at = now
    /\ now' = (now + LoopStep) % TicksPerDay
    /\ UNCHANGED << jobs, board, messages, driver, button, when_held, ev, hist >>

\* the driver's loop, first half: it calls get_recurring_job() when it has no
\* returned name left to dispatch
LoopPoll ==
    /\ ev.op = "get_recurring_job" => ev.ret = None
    /\ GetRecurringJob

\* the driver's loop, second half: it calls handle_job on the name returned
LoopDispatch ==
    /\ ev.op = "get_recurring_job"
    /\ ev.ret # None
    /\ HandleJobCall
    /\ driver'.name = ev.ret[1]

NextLoop ==
    \/ RegisterLoop
    \/ TickLoop
    \/ LoopPoll
    \/ LoopDispatch
    \/ HandleJobReturn

\* the driver never stops: each half of its loop is taken when it stays possible,
\* a body that was entered returns, and time passes while the driver waits
SpecLoop ==
    /\ Init
    /\ [][NextLoop]_vars
    /\ WF_vars(LoopPoll)
    /\ WF_vars(LoopDispatch)
    /\ WF_vars(HandleJobReturn)
    /\ WF_vars(TickLoop)

(* ------------------------------- claims -------------------------------- *)
\* the registered instance a name stands for
job_of(name) == dict_get(jobs, name)

\* an elapsed time of more than the job's interval, in ticks
elapsed_exceeds(job, since) == job.interval # None /\ now - since > job.interval[1] * TicksPerSecond

\* C1: at no instant are two job bodies executing, the body entered by the
\* button-held callback included.
C1_OneBodyAtATime == ~(driver.pc = "run" /\ button = "_run")

\* C2: an error raised by the dispatched job's run is caught inside handle_job and
\* does not escape; the registry and the state of every other job are unchanged by
\* the failing dispatch, and the driver is back where it can make its next call.
C2_FailureContained ==
    [][(driver.pc = "run" /\ driver'.pc = "idle" /\ ev'.outcome = "raised") =>
          /\ ~ev'.escaped
          /\ driver' = Idle
          /\ Len(jobs') = Len(jobs)
          /\ \A i \in 1..Len(jobs) :
                /\ jobs'[i].name = jobs[i].name
                /\ jobs'[i].id = jobs[i].id
                /\ jobs[i].name # driver.name => jobs'[i] = jobs[i]]_vars

C2_Witness == ev.op = "handle_job" /\ ev.outcome = "raised" /\ driver.pc = "idle" /\ Len(jobs) >= 2

\* C3: run() has set last_run to the clock reading of its start when the body
\* executes, and a job whose last attempt failed is selected by get_recurring_job
\* only when more than its interval has elapsed since the start of that attempt.
C3_FailedJobWaits ==
    /\ driver.pc = "run" => job_of(driver.name).last_run = driver.entered_at
    /\ \A i \in 1..Len(jobs) :
          (ev.op = "get_recurring_job" /\ ev.at = now /\ ev.ret = Some(jobs[i].name) /\ hist.failed[jobs[i].name])
             => elapsed_exceeds(jobs[i], hist.reset[jobs[i].name])

C3_Witness ==
    /\ ev.op = "get_recurring_job" /\ ev.at = now /\ ev.ret # None
    /\ \E i \in 1..Len(jobs) : ev.ret = Some(jobs[i].name) /\ hist.failed[jobs[i].name]

\* C4: is_due is false when interval is null, and otherwise true exactly when the
\* time elapsed since last_run strictly exceeds interval, whatever the elapsed time
\* (a day or more included). The elapsed time is counted here in whole seconds, the
\* reading of "exceeds" most favourable to the code.
C4_DueIffElapsedExceedsInterval ==
    \A i \in 1..Len(jobs) :
        is_due(jobs[i], now) <=>
            (jobs[i].interval # None /\ (now - jobs[i].last_run) \div TicksPerSecond > jobs[i].interval[1])

\* C5 as stated: is_due() is false immediately after a run() call completes, however
\* long the body took, and it is true only after at least interval seconds have
\* elapsed since the timestamp reset.
C5_NotDueAfterRun ==
    /\ (ev.op = "handle_job" /\ ev.outcome = "ok" /\ ev.at = now) => ~is_due(job_of(ev.name), now)
    /\ \A i \in 1..Len(jobs) :
          is_due(jobs[i], now) => now - hist.reset[jobs[i].name] >= jobs[i].interval[1] * TicksPerSecond

\* C5 amended: is_due() is false immediately after a run() call completes when the
\* body took no longer than the job's interval (or the interval is null), and it is
\* true only after at least interval seconds have elapsed since the timestamp reset.
C5_NotDueAfterShortRun ==
    /\ (/\ ev.op = "handle_job" /\ ev.outcome = "ok" /\ ev.at = now
        /\ job_of(ev.name).interval # None => ev.took <= job_of(ev.name).interval[1] * TicksPerSecond)
          => ~is_due(job_of(ev.name), now)
    /\ \A i \in 1..Len(jobs) :
          is_due(jobs[i], now) => now - hist.reset[jobs[i].name] >= jobs[i].interval[1] * TicksPerSecond

C5_Witness ==
    /\ ev.op = "handle_job" /\ ev.outcome = "ok" /\ ev.at = now /\ ev.took > 0
    /\ job_of(ev.name).interval # None
    /\ ev.took <= job_of(ev.name).interval[1] * TicksPerSecond
    /\ ~is_due(job_of(ev.name), now)

\* C6: handle_job with a name that is not registered raises nothing, enters no job
\* body, and leaves the registry, every job and the board unchanged.
C6_UnknownNameIsNoOp ==
    [][(ev'.op = "handle_job" /\ ev'.outcome = "unknown") =>
          /\ ~ev'.escaped
          /\ driver.pc = "idle"
          /\ UNCHANGED << jobs, board, messages, driver, when_held >>]_vars

C6_Witness ==
    /\ ev.op = "handle_job" /\ ev.outcome = "unknown" /\ ev.at = now
    /\ Len(jobs) >= 2 /\ \E i \in 1..Len(jobs) : is_due(jobs[i], now)

\* the positions of the jobs that are due now
due_now == { i \in 1..Len(jobs) : is_due(jobs[i], now) }

\* C7 as stated: get_recurring_job returns the first due job in the order in which
\* the stored instances were registered (a re-registered job counts from its second
\* registration), and none exactly when no job is due.
C7_FirstDueInRegistrationOrder ==
    (ev.op = "get_recurring_job" /\ ev.at = now) =>
        IF due_now = {} THEN ev.ret = None
        ELSE \E i \in due_now : ev.ret = Some(jobs[i].name) /\ \A j \in due_now : jobs[i].id <= jobs[j].id

\* C7 amended: get_recurring_job returns the first due job in the order in which
\* the names were first registered (a re-registered job keeps the place of its
\* name's first registration), and none exactly when no job is due.
C7_FirstDueInNameOrder ==
    (ev.op = "get_recurring_job" /\ ev.at = now) =>
        IF due_now = {} THEN ev.ret = None
        ELSE \E i \in due_now :
                /\ ev.ret = Some(jobs[i].name)
                /\ \A j \in due_now : hist.first[jobs[i].name] <= hist.first[jobs[j].name]

C7_Witness ==
    /\ ev.op = "get_recurring_job" /\ ev.at = now /\ ev.ret # None
    /\ Cardinality(due_now) >= 2
    /\ hist.latest[ev.ret[1]] # hist.first[ev.ret[1]]

\* C8 as stated: two calls of get_recurring_job with no dispatch in between return
\* the same name, and neither changes any job.
C8_SameAnswerTwice ==
    [][(ev'.op = "get_recurring_job" /\ ev'.outcome = "repeat" /\ ev' # ev) =>
          (ev'.ret = ev.ret /\ jobs' = jobs)]_vars

\* C8 amended: two calls of get_recurring_job with no dispatch or registration in
\* between return the same name when the clock reads the same at both calls, and
\* no call of get_recurring_job changes any job.
C8_SameAnswerAtSameClock ==
    [][(ev'.op = "get_recurring_job" /\ ev' # ev) =>
          /\ jobs' = jobs
          /\ (ev'.outcome = "repeat" /\ ev'.at = ev.at) => ev'.ret = ev.ret]_vars

C8_Witness == ev.op = "get_recurring_job" /\ ev.outcome = "repeat" /\ ev.at = now /\ ev.ret # None

\* C9: the registry holds one instance per name, the instance registered last
\* under that name, and handle_job runs that instance.
C9_OneInstancePerName ==
    /\ \A i, j \in 1..Len(jobs) : jobs[i].name = jobs[j].name => i = j
    /\ \A i \in 1..Len(jobs) : jobs[i].id = hist.latest[jobs[i].name]
    /\ driver.pc = "run" => driver.inst = hist.latest[driver.name]

C9_Witness == driver.pc = "run" /\ hist.latest[driver.name] # hist.first[driver.name] /\ Len(jobs) >= 2

BackupRestore_returns == driver.pc = "run" /\ driver'.pc = "idle" /\ driver.name = "BackupRestore"

\* the four-field record published for the i-th record of a sequence of the given kind
PublishedRecord(kind, i) ==
    [state |-> IF i = SeqLen THEN "done" ELSE "running", who |-> "nextcloud", what |-> kind,
     percent |-> PyInt((100 * i) \div SeqLen)]

\* C11: after a start, a dispatch of BackupRestore that returns without an error
\* pulls exactly one record from the sequence and publishes it, the records going
\* out one per dispatch in sequence order; the dispatch after the last record
\* publishes nothing, clears the sequence handle and sets interval to null, leaving
\* the board at the last published record.
C11_OneRecordPerDispatch ==
    [][(BackupRestore_returns /\ job_of("BackupRestore").iterator # None /\ ev'.outcome = "ok") =>
          LET it == job_of("BackupRestore").iterator[1]
              after == dict_get(jobs', "BackupRestore")
          IN  /\ messages' = messages
              /\ IF it.pos < SeqLen
                 THEN /\ board' = [board EXCEPT !["backup_restore"] = Some(PublishedRecord(it.kind, it.pos + 1))]
                      /\ after.iterator = Some([it EXCEPT !.pos = it.pos + 1])
                      /\ after.interval = Some(1)
                 ELSE /\ board' = board
                      /\ after.iterator = None
                      /\ after.interval = None]_vars

C11_Witness ==
    /\ ev.op = "handle_job" /\ ev.name = "BackupRestore" /\ ev.outcome = "ok"
    /\ job_of("BackupRestore").iterator = None
    /\ job_of("BackupRestore").interval = None
    /\ board["backup_restore"] = Some(PublishedRecord("export", SeqLen))

\* the start arguments of the dispatch in progress are unusable: tar_path or mode
\* is missing, or mode is neither backup nor restore
invalid_start_args ==
    \/ driver.kwargs["tar_path"] = None
    \/ driver.kwargs["mode"] = None
    \/ driver.kwargs["mode"] \notin { Some("backup"), Some("restore") }

\* C12: a dispatch of BackupRestore while idle whose args lack tar_path or mode, or
\* whose mode is neither backup nor restore, pushes exactly one message to the
\* message queue, creates no sequence, leaves interval at null, writes nothing to
\* the backup_restore topic, raises nothing and leaves the job idle.
C12_InvalidStartPushesOneMessage ==
    [][(BackupRestore_returns /\ job_of("BackupRestore").iterator = None /\ invalid_start_args) =>
          /\ Len(messages') = Len(messages) + 1
          /\ SubSeq(messages', 1, Len(messages)) = messages
          /\ board' = board
          /\ dict_get(jobs', "BackupRestore").iterator = None
          /\ dict_get(jobs', "BackupRestore").interval = None
          /\ job_of("BackupRestore").interval = None
          /\ ev'.outcome = "ok"]_vars

C12_Witness ==
    /\ ev.op = "handle_job" /\ ev.name = "BackupRestore" /\ ev.outcome = "ok"
    /\ messages = << "'mode' arg needs to be either 'backup' or 'restore'" >>
    /\ job_of("BackupRestore").iterator = None
    /\ job_of("BackupRestore").interval = None

\* C13: a dispatch of BackupRestore that carries start arguments (valid, invalid or
\* missing) while a sequence is active creates no sequence, does not replace the
\* active one, publishes no starting record and pushes no message: it does what a
\* progress pull without arguments does, one record at most leaving the sequence.
C13_StartArgsWhileActiveAreAPull ==
    [][(BackupRestore_returns /\ job_of("BackupRestore").iterator # None) =>
          LET job == job_of("BackupRestore")
              it == job.iterator[1]
              after == dict_get(jobs', "BackupRestore")
          IN  /\ messages' = messages
              /\ \/ after.iterator = None
                 \/ /\ after.iterator # None
                    /\ after.iterator[1].kind = it.kind
                    /\ after.iterator[1].path = it.path
                    /\ after.iterator[1].pos >= it.pos
              /\ \/ board' = board
                 \/ /\ it.pos < SeqLen
                    /\ board' = [board EXCEPT !["backup_restore"] = Some(PublishedRecord(it.kind, it.pos + 1))]
              /\ \E out \in Outcomes(job, NoArgs) :
                    LET r == body(job, board, messages, NoArgs, out)
                    IN  after = r.job /\ board' = r.board /\ messages' = r.messages]_vars

C13_Witness ==
    /\ ev.op = "handle_job" /\ ev.name = "BackupRestore" /\ ev.outcome = "ok"
    /\ ev.kwargs = [tar_path |-> Some(TarPath), mode |-> Some("restore")]
    /\ job_of("BackupRestore").iterator = Some([kind |-> "export", path |-> TarPath, pos |-> 1])
    /\ board["backup_restore"] = Some(PublishedRecord("export", 1))

\* C14: the body of the FactoryReset job is entered only through handle_job and
\* BaseJob.run, also when the button-held event triggers it: whenever the callback
\* thread enters the body, it does so inside a dispatch of FactoryReset by the
\* manager (whose except clause catches an error of the body), and last_run of the
\* job is set to the clock reading of the entry.
C14_ResetOnlyThroughDispatch ==
    [][(button = "idle" /\ button' = "_run") =>
          /\ driver'.pc = "run" /\ driver'.name = "FactoryReset"
          /\ dict_get(jobs', "FactoryReset").last_run = now]_vars

\* C15: under a driver that forever repeats "get_recurring_job, then handle_job on
\* the returned name", every registered job that becomes due is eventually
\* dispatched, even when another registered job's body fails on every run or takes
\* longer than that job's own interval.
C15_DueJobEventuallyDispatched ==
    \A n \in LoopJobs :
        (hist.scheduling /\ dict_contains(jobs, n) /\ is_due(job_of(n), now))
            ~> (driver.pc = "run" /\ driver.name = n)

\* C16: the interval of a job instance changes only in a step in which that
\* instance's own body executes under handle_job: registering jobs, is_due,
\* get_recurring_job, the unknown-name path of handle_job, BaseJob.run outside the
\* body, the clock, and the execution of any other job leave it unchanged.
C16_IntervalChangesOnlyInOwnBody ==
    [][\A i \in 1..Len(jobs) : \A j \in 1..Len(jobs') :
          (jobs[i].id = jobs'[j].id /\ jobs[i].interval # jobs'[j].interval) =>
              (driver.pc = "run" /\ driver'.pc = "idle" /\ driver.inst = jobs[i].id)]_vars

C16_Witness ==
    /\ ev.op = "handle_job" /\ ev.outcome = "ok" /\ dict_contains(jobs, ev.name)
    /\ job_of(ev.name).interval # initial_interval(ev.name)
    /\ \E i \in 1..Len(jobs) :
          /\ jobs[i].name # ev.name
          /\ initial_interval(jobs[i].name) # None
          /\ jobs[i].interval = initial_interval(jobs[i].name)
          /\ hist.reset[jobs[i].name] > 0

\* C17: the start record is merged into the backup_restore topic and progress
\* records replace it, yet after every successful start dispatch the topic holds
\* exactly the six-field starting record of that start, no field value of an
\* earlier operation left over, and after every progress pull that publishes, the
\* record has exactly the four fields state, who, what, percent.
C17_RecordShapes ==
    [][BackupRestore_returns =>
          LET before == job_of("BackupRestore")
              after == dict_get(jobs', "BackupRestore")
              args == driver.kwargs
          IN  /\ (before.iterator = None /\ after.iterator # None) =>
                    board'["backup_restore"] =
                        Some([state |-> "starting", percent |-> PyStr("0"), who |-> "all",
                              tar_path |-> args["tar_path"][1], mode |-> args["mode"][1],
                              what |-> IF args["mode"][1] = "backup" THEN "export" ELSE "import"])
              /\ (before.iterator # None /\ board' # board) =>
                    /\ DOMAIN board'["backup_restore"][1] = { "state", "who", "what", "percent" }
                    /\ board'["backup_restore"][1]["state"] # "starting"]_vars

C17_Witness ==
    /\ ev.op = "handle_job" /\ ev.name = "BackupRestore" /\ ev.outcome = "ok"
    /\ hist.merged
    /\ job_of("BackupRestore").iterator = Some([kind |-> "import", path |-> TarPath, pos |-> 0])
    /\ DOMAIN board["backup_restore"][1] = { "state", "percent", "who", "tar_path", "what", "mode" }
    /\ board["backup_restore"][1]["state"] = "starting"

\* C18: after any dispatch of SelfUpdate, whatever its outcome (an error of the
\* package cache or of the service launcher included), its interval is null and
\* stays null, so that get_recurring_job does not return SelfUpdate again; one
\* dispatch starts the nextbox-updater service at most once and nothing else, and
\* only when the package is not installed or is upgradable.
C18_SelfUpdateRunsOnce ==
    [][\A i \in 1..Len(jobs) : \A j \in 1..Len(jobs') :
          (jobs[i].name = "SelfUpdate" /\ jobs'[j].id = jobs[i].id) =>
              /\ (driver.pc = "run" /\ driver'.pc = "idle") =>
                    /\ jobs'[j].interval = None
                    /\ ev'.started \in { << >>, << "nextbox-updater" >> }
              /\ jobs[i].interval = None => jobs'[j].interval = None
              /\ (jobs[i].interval = None /\ ev'.op = "get_recurring_job") => ev'.ret # Some("SelfUpdate")
              /\ \A out \in Outcomes(jobs[i], NoArgs) :
                    SelfUpdateJob_run(jobs[i], board, messages, NoArgs, out).started # << >>
                        => out \in { "not_installed", "upgradable", "start_raises" }]_vars

C18_Witness ==
    /\ ev.op = "get_recurring_job" /\ ev.at = now /\ ev.ret = None
    /\ dict_contains(jobs, "SelfUpdate")
    /\ job_of("SelfUpdate").interval = None
    /\ hist.failed["SelfUpdate"]
    /\ timedelta_seconds(now - job_of("SelfUpdate").last_run) > SelfUpdate_initial_interval

\* C19: for a BackupRestore job, at every point between dispatches, after any
\* sequence of valid starts, invalid starts, progress pulls, exhaustion and
\* dispatches whose body raises, the sequence handle is present exactly when
\* interval is 1 and absent exactly when interval is null.
C19_HandleIffArmed ==
    \A i \in 1..Len(jobs) :
        jobs[i].name = "BackupRestore" =>
            /\ jobs[i].iterator # None <=> jobs[i].interval = Some(1)
            /\ jobs[i].iterator = None <=> jobs[i].interval = None

C19_Witness ==
    /\ ev.op = "handle_job" /\ ev.name = "BackupRestore" /\ ev.outcome = "raised"
    /\ driver.pc = "idle"
    /\ job_of("BackupRestore").iterator # None
    /\ job_of("BackupRestore").iterator[1].pos > 0
    /\ job_of("BackupRestore").interval = Some(1)

\* C20: a BackupRestore dispatch that fails otherwise than by exhaustion leaves the
\* job consistent: when the start fails, the job stays idle with interval null and
\* the board shows no starting record for the operation that never started; when
\* pulling or publishing a progress record fails, the job keeps its sequence handle
\* and interval 1, and no record is lost (the sequence has not moved past a record
\* that was not published).
C20_FailureLeavesJobConsistent ==
    [][(BackupRestore_returns /\ ev'.outcome = "raised") =>
          LET before == job_of("BackupRestore")
              after == dict_get(jobs', "BackupRestore")
          IN  IF before.iterator = None
              THEN /\ after.iterator = None
                   /\ after.interval = None
                   /\ board' = board
              ELSE /\ after.iterator # None
                   /\ after.interval = Some(1)
                   /\ after.iterator[1].pos = before.iterator[1].pos]_vars
=============================================================================
